---- MODULE Spec2Model ----
(***************************************************************************)
(* Model of opensearch-index-cleaner (src/src/main.rs): the cleanup()      *)
(* process, the per-service retention run cleanup_service(), the helpers   *)
(* sizeof_fmt, filter_indices_by_pattern, days_between_today_and_date and  *)
(* the payload assembled by send_notification().                           *)
(*                                                                         *)
(* Index names, glob patterns and date tokens are sequences of one-        *)
(* character strings, so that slicing, prefix tests, glob matching and     *)
(* date parsing are computed character by character as the code does.      *)
(***************************************************************************)
EXTENDS Integers, Sequences, FiniteSets, TLC

VARIABLES
  pc,             \* where cleanup() stands: "start", "service", "in_service", "exited"
  dry_run,        \* CLEANUP_DRY_RUN
  service_rules,  \* the parsed rules file
  svc_i,          \* position of `for service_obj in service_rules`
  sv,             \* the locals of the current (or last) cleanup_service run
  all_results,    \* the (name, ServiceResults) pairs pushed so far
  delete_log,     \* delete_index calls of the services that have returned
  notification,   \* the payload built by send_notification
  send_result,    \* what the webhook POST came to
  posts,          \* number of webhook POSTs issued
  fatal,          \* what ended the process early, "" if nothing did
  exit_code,      \* the process's exit code, -1 while it runs
  twin            \* a dry run of cleanup_service on the same inputs (SpecDryReal)

vars == <<pc, dry_run, service_rules, svc_i, sv, all_results, delete_log,
          notification, send_result, posts, fatal, exit_code, twin>>

procvars == <<pc, dry_run, service_rules, svc_i, sv, all_results, delete_log,
              notification, send_result, posts, fatal, exit_code>>

(***************************************************************************)
(* Bounds of the enumerated inputs.                                        *)
(***************************************************************************)
MaxIndices == 2
MaxRules == 2
MaxReports == 2
MaxServices == 2

(***************************************************************************)
(* Generic helpers.                                                        *)
(***************************************************************************)
Range(s) == {s[k] : k \in DOMAIN s}

\* Sequences without repetition, of length at most n, over the set S.
InjSeqs(S, n) ==
  UNION {{s \in [1..k -> S] : \A a, b \in 1..k : a # b => s[a] # s[b]} : k \in 0..n}

\* All sequences over S whose length lies in lo..hi.
SeqsBetween(S, lo, hi) == UNION {[1..k -> S] : k \in lo..hi}

Digits == {"0", "1", "2", "3", "4", "5", "6", "7", "8", "9"}

DigitVal(c) ==
  CASE c = "0" -> 0 [] c = "1" -> 1 [] c = "2" -> 2 [] c = "3" -> 3 [] c = "4" -> 4
    [] c = "5" -> 5 [] c = "6" -> 6 [] c = "7" -> 7 [] c = "8" -> 8 [] c = "9" -> 9

(***************************************************************************)
(* sizeof_fmt: binary-scaled size string.                                  *)
(***************************************************************************)
Units == <<"", "Ki", "Mi", "Gi", "Ti", "Pi", "Ei", "Zi">>

RECURSIVE SizeofFmtFrom(_, _)
SizeofFmtFrom(num, k) ==
  IF k > Len(Units) THEN ToString(num) \o "Yi" \o "B"
  ELSE IF num < 1024 THEN ToString(num) \o Units[k] \o "B"
  ELSE SizeofFmtFrom(num \div 1024, k + 1)

sizeof_fmt(num) == SizeofFmtFrom(num, 1)

(***************************************************************************)
(* fnmatch_regex::glob_to_regex and Regex::is_match, as used by            *)
(* filter_indices_by_pattern: the glob is translated to a regular          *)
(* expression anchored at both ends; '*' is any run of characters other    *)
(* than '/', '?' one such character, '[...]' one character of the class.   *)
(* A '[' that is never closed makes glob_to_regex return Err.              *)
(***************************************************************************)
\* Position of the ']' closing the class opened at p[i], 0 when there is none.
\* The first character after '[' is taken literally, as fnmatch does.
ClassEnd(p, i) ==
  LET closers == {k \in (i + 2)..Len(p) : p[k] = "]"}
  IN IF closers = {} THEN 0 ELSE CHOOSE k \in closers : \A m \in closers : k <= m

RECURSIVE GlobValidFrom(_, _)
GlobValidFrom(p, i) ==
  IF i > Len(p) THEN TRUE
  ELSE IF p[i] = "["
    THEN ClassEnd(p, i) # 0 /\ GlobValidFrom(p, ClassEnd(p, i) + 1)
    ELSE GlobValidFrom(p, i + 1)

glob_to_regex_ok(p) == GlobValidFrom(p, 1)

RECURSIVE GlobMatchFrom(_, _, _, _)
GlobMatchFrom(p, i, s, j) ==
  IF i > Len(p) THEN j > Len(s)
  ELSE IF p[i] = "*"
    THEN \/ GlobMatchFrom(p, i + 1, s, j)
         \/ j <= Len(s) /\ s[j] # "/" /\ GlobMatchFrom(p, i, s, j + 1)
  ELSE IF p[i] = "?"
    THEN j <= Len(s) /\ s[j] # "/" /\ GlobMatchFrom(p, i + 1, s, j + 1)
  ELSE IF p[i] = "["
    THEN /\ j <= Len(s)
         /\ s[j] \in {p[k] : k \in (i + 1)..(ClassEnd(p, i) - 1)}
         /\ GlobMatchFrom(p, ClassEnd(p, i) + 1, s, j + 1)
  ELSE j <= Len(s) /\ s[j] = p[i] /\ GlobMatchFrom(p, i + 1, s, j + 1)

is_match(p, s) == GlobMatchFrom(p, 1, s, 1)

\* The indices of the listing whose name matches, in listing order.
filter_indices_by_pattern(indices, index_pattern) ==
  SelectSeq(indices, LAMBDA index : is_match(index_pattern, index.index_name))

(***************************************************************************)
(* chrono: NaiveDate::parse_from_str and the day difference.  A format is  *)
(* a sequence of items: the specifiers "%Y", "%m", "%d" and literal        *)
(* characters.  A numeric specifier takes the longest run of 1..width      *)
(* digits (width 4 for %Y, 2 for %m and %d); a literal must be equal; the  *)
(* whole token must be consumed and the fields must form a real date.      *)
(***************************************************************************)
NoDate == [ok |-> FALSE, y |-> 0, m |-> 0, d |-> 0]

ItemWidth(item) == IF item = "%Y" THEN 4 ELSE 2

\* Number of leading digits of tok from position t, at most w.
RECURSIVE DigitRun(_, _, _)
DigitRun(tok, t, w) ==
  IF w = 0 \/ t > Len(tok) \/ tok[t] \notin Digits THEN 0
  ELSE 1 + DigitRun(tok, t + 1, w - 1)

RECURSIVE NumberAt(_, _, _, _)
NumberAt(tok, t, n, acc) ==
  IF n = 0 THEN acc ELSE NumberAt(tok, t + 1, n - 1, acc * 10 + DigitVal(tok[t]))

IsLeap(y) == (y % 4 = 0 /\ y % 100 # 0) \/ y % 400 = 0

DaysInMonth(y, m) ==
  IF m = 2 THEN (IF IsLeap(y) THEN 29 ELSE 28)
  ELSE IF m \in {4, 6, 9, 11} THEN 30 ELSE 31

ValidDate(y, m, d) == m \in 1..12 /\ d >= 1 /\ d <= DaysInMonth(y, m)

RECURSIVE ParseFrom(_, _, _, _, _)
ParseFrom(fmt, f, tok, t, acc) ==
  IF f > Len(fmt)
    THEN IF t = Len(tok) + 1 /\ acc.y >= 0 /\ ValidDate(acc.y, acc.m, acc.d)
         THEN [acc EXCEPT !.ok = TRUE] ELSE NoDate
  ELSE IF fmt[f] \in {"%Y", "%m", "%d"}
    THEN LET n == DigitRun(tok, t, ItemWidth(fmt[f]))
             v == NumberAt(tok, t, n, 0)
         IN IF n = 0 THEN NoDate
            ELSE ParseFrom(fmt, f + 1, tok, t + n,
                           IF fmt[f] = "%Y" THEN [acc EXCEPT !.y = v]
                           ELSE IF fmt[f] = "%m" THEN [acc EXCEPT !.m = v]
                           ELSE [acc EXCEPT !.d = v])
  ELSE IF t <= Len(tok) /\ tok[t] = fmt[f]
    THEN ParseFrom(fmt, f + 1, tok, t + 1, acc)
  ELSE NoDate

parse_from_str(date_str, date_pattern) ==
  ParseFrom(date_pattern, 1, date_str, 1, [ok |-> FALSE, y |-> -1, m |-> 0, d |-> 0])

\* Days since 1970-01-01 of a proleptic Gregorian date (year >= 0).
DayNumber(y, m, d) ==
  LET yy  == IF m <= 2 THEN y - 1 ELSE y
      era == IF yy >= 0 THEN yy \div 400 ELSE -1
      yoe == yy - era * 400
      mp  == IF m > 2 THEN m - 3 ELSE m + 9
      doy == (153 * mp + 2) \div 5 + d - 1
      doe == yoe * 365 + yoe \div 4 - yoe \div 100 + doy
  IN era * 146097 + doe - 719468

\* Utc::now().date_naive(): the day on which the run takes place.
Today == [y |-> 2024, m |-> 6, d |-> 15]

\* days_between_today_and_date: [ok, days]; ok = FALSE is the Err result.
days_between_today_and_date(date_pattern, date_str) ==
  LET input_date == parse_from_str(date_str, date_pattern)
  IN IF input_date.ok
     THEN [ok |-> TRUE,
           days |-> DayNumber(Today.y, Today.m, Today.d)
                    - DayNumber(input_date.y, input_date.m, input_date.d)]
     ELSE [ok |-> FALSE, days |-> 0]

(***************************************************************************)
(* The enumerated inputs: index names, listings, rules, summary reports    *)
(* and rule files.                                                         *)
(***************************************************************************)
\* "logs-2023.01.01": 531 days before Today.
NameOld == <<"l", "o", "g", "s", "-", "2", "0", "2", "3", ".", "0", "1", ".", "0", "1">>
\* "logs-2024.06.01": 14 days before Today (161 days when read as %Y.%d.%m).
NameNew == <<"l", "o", "g", "s", "-", "2", "0", "2", "4", ".", "0", "6", ".", "0", "1">>
\* ".kib-2023.01.01": a system index, 531 days old.
NameSys == <<".", "k", "i", "b", "-", "2", "0", "2", "3", ".", "0", "1", ".", "0", "1">>
\* "logs-abc": shorter than the 10-character date suffix.
NameShort == <<"l", "o", "g", "s", "-", "a", "b", "c">>
\* "logs-20230101": its last 10 characters are "s-20230101".
NameCompact == <<"l", "o", "g", "s", "-", "2", "0", "2", "3", "0", "1", "0", "1">>

Index(n, sz) == [index_name |-> n, size |-> sz]

IndexPool ==
  {Index(NameOld, 1024), Index(NameNew, 2048), Index(NameSys, 512),
   Index(NameShort, 4096), Index(NameCompact, 8192)}

\* What list_indexes can return: index names are unique within a service.
Listings == InjSeqs(IndexPool, MaxIndices)

None == <<>>
DefaultDatePattern == <<"%Y", ".", "%m", ".", "%d">>
DayFirstPattern == <<"%Y", ".", "%d", ".", "%m">>

GlobLogs == <<"l", "o", "g", "s", "-", "*">>
GlobAll == <<"*">>
GlobNone == <<"n", "o", "n", "e", "*">>
GlobUnclosed == <<"[">>

Rule(p, a, d) == [index_pattern |-> p, age_threshold |-> a, date_pattern |-> d]

RuleLogs10 == Rule(GlobLogs, 10, None)
RuleAll100 == Rule(GlobAll, 100, None)
RuleLogsDayFirst == Rule(GlobLogs, 100, DayFirstPattern)
RuleBadGlob == Rule(GlobUnclosed, 10, None)

RulePool == {RuleLogs10, RuleAll100, RuleLogsDayFirst, RuleBadGlob}

SummaryReport(p, n) == [pattern |-> p, name |-> n]

ReportPool ==
  {SummaryReport(GlobLogs, "logs"), SummaryReport(GlobNone, "none"),
   SummaryReport(GlobUnclosed, "bad")}

Service(n, rs, srs) == [service |-> n, rules |-> rs, summary_reports |-> srs]

\* Rule files with one service: every rule list without reports, and one
\* rule list with every list of reports.
SingleServices ==
  {Service("svc-a", rs, <<>>) : rs \in InjSeqs(RulePool, MaxRules)}
  \cup {Service("svc-a", <<RuleLogs10>>, srs) : srs \in InjSeqs(ReportPool, MaxReports)}

\* Rule files with several services.
SmallServices ==
  {Service("svc-a", <<RuleLogs10>>, <<>>), Service("svc-b", <<RuleBadGlob>>, <<>>)}

\* What serde_yaml::from_str can return for a well-formed rules file.
RuleFiles ==
  {<<>>} \cup {<<s>> : s \in SingleServices}
  \cup SeqsBetween(SmallServices, 2, MaxServices)

(***************************************************************************)
(* cleanup_service: the locals of one run, as a record.                    *)
(*   pc: "idle" (no run yet), "rule" (at the head of `for rule in rules`,  *)
(*   rule_i the next rule), "index" (inside `for index in &indexes`, idx   *)
(*   the next position), "returned", "panicked".                           *)
(*   calls: the delete_index calls issued by this run, in order.           *)
(***************************************************************************)
NoResults ==
  [deletes |-> <<>>, total |-> 0, total_remaining |-> 0,
   total_human_readable_msg |-> "", failures |-> 0, reports |-> <<>>]

NoSv ==
  [pc |-> "idle", panic |-> "", indices |-> <<>>, full_index_size |-> 0,
   reports |-> <<>>, results |-> <<>>, index_already_deleted |-> <<>>,
   total_data_deleted |-> 0, num_failures |-> 0, rule_i |-> 0,
   indexes |-> <<>>, idx |-> 0, calls |-> <<>>, ret |-> NoResults]

Panicked(s, cause) == [s EXCEPT !.pc = "panicked", !.panic = cause]

RECURSIVE SumSizesFrom(_, _)
SumSizesFrom(indices, k) ==
  IF k > Len(indices) THEN 0 ELSE indices[k].size + SumSizesFrom(indices, k + 1)

\* Mutant: the protected indices are left out of the full size.
FullIndexSizeUnprotectedOnly(indices) ==
  SumSizesFrom(SelectSeq(indices, LAMBDA index : index.index_name[1] # "."), 1)

\* `for index in &indices { full_index_size += index.size }`
FullIndexSize(indices) == SumSizesFrom(indices, 1)

\* Mutant: a report that matches no index is left out.
SummaryRowsNoEmpty(indices, summary_reports) ==
  LET kept == SelectSeq(summary_reports,
                LAMBDA r : filter_indices_by_pattern(indices, r.pattern) # <<>>)
  IN [k \in DOMAIN kept |->
        <<kept[k].name,
          sizeof_fmt(SumSizesFrom(filter_indices_by_pattern(indices, kept[k].pattern), 1))>>]

\* `for sum_report in summary_reports { ... reports.push(...) }`
SummaryRows(indices, summary_reports) ==
  [k \in DOMAIN summary_reports |->
     LET indexes == filter_indices_by_pattern(indices, summary_reports[k].pattern)
     IN IF indexes # <<>>
        THEN <<summary_reports[k].name, sizeof_fmt(SumSizesFrom(indexes, 1))>>
        ELSE <<summary_reports[k].name, sizeof_fmt(0)>>]

\* From the listing to the head of the rule loop; glob_to_regex(..).unwrap()
\* panics on the first report whose pattern is not a valid glob.
StartService(indices, summary_reports) ==
  LET s == [NoSv EXCEPT !.pc = "rule", !.indices = indices,
                        !.full_index_size = FullIndexSize(indices), !.rule_i = 1]
  IN IF \E k \in DOMAIN summary_reports : ~glob_to_regex_ok(summary_reports[k].pattern)
     THEN Panicked(s, "glob")
     ELSE [s EXCEPT !.reports = SummaryRows(indices, summary_reports)]

\* `rule.date_pattern.clone().or(Some("%Y.%m.%d".to_string())).unwrap()`
DatePatternOf(rule) ==
  IF rule.date_pattern = None THEN DefaultDatePattern ELSE rule.date_pattern

\* The head of one iteration of `for rule in rules`.
BeginRule(s, rule) ==
  IF ~glob_to_regex_ok(rule.index_pattern) THEN Panicked(s, "glob")
  ELSE LET indexes == filter_indices_by_pattern(s.indices, rule.index_pattern)
       IN IF indexes = <<>>
          THEN [s EXCEPT !.rule_i = @ + 1, !.indexes = <<>>, !.idx = 0]
          ELSE [s EXCEPT !.pc = "index", !.indexes = indexes, !.idx = 1]

\* The end of one iteration of `for index in &indexes`.
NextIndex(s) ==
  IF s.idx < Len(s.indexes) THEN [s EXCEPT !.idx = @ + 1]
  ELSE [s EXCEPT !.pc = "rule", !.rule_i = @ + 1, !.indexes = <<>>, !.idx = 0]

\* Mutant: no index counts as already deleted.
AlreadyDeletedNever(s, index_name) == FALSE

\* `index_already_deleted.contains(&index_name)`
AlreadyDeleted(s, index_name) == index_name \in Range(s.index_already_deleted)

\* Mutant: no index is protected.
IsProtectedNever(index_name) == FALSE

\* `index_name.starts_with(".")`
IsProtected(index_name) == Len(index_name) >= 1 /\ index_name[1] = "."

\* Mutant: a dry run records the index but leaves its size out of the total.
SelectDryUncounted(s, index, dry, del_ok) ==
  [s EXCEPT !.results = Append(@, [name |-> index.index_name, size |-> index.size,
                                   success |-> TRUE]),
            !.calls = IF dry THEN @ ELSE Append(@, index.index_name),
            !.num_failures = IF ~dry /\ ~del_ok THEN @ + 1 ELSE @,
            !.index_already_deleted = Append(@, index.index_name),
            !.total_data_deleted = IF dry THEN @ ELSE @ + index.size]

\* The body of `if age > age_threshold { ... }`: the delete call unless dry_run
\* (del_ok is its outcome), then the bookkeeping; result.success is set to
\* true after the match on del_res, whatever the outcome was.
Select(s, index, dry, del_ok) ==
  [s EXCEPT !.results = Append(@, [name |-> index.index_name, size |-> index.size,
                                   success |-> TRUE]),
            !.calls = IF dry THEN @ ELSE Append(@, index.index_name),
            !.num_failures = IF ~dry /\ ~del_ok THEN @ + 1 ELSE @,
            !.index_already_deleted = Append(@, index.index_name),
            !.total_data_deleted = @ + index.size]

\* One iteration of `for index in &indexes`.
ProcessIndex(s, rule, dry, del_ok) ==
  LET index == s.indexes[s.idx]
      index_name == index.index_name
  IN IF AlreadyDeleted(s, index_name) THEN NextIndex(s)
     ELSE IF IsProtected(index_name) THEN NextIndex(s)
     ELSE IF Len(index_name) < 10 THEN Panicked(s, "slice")
     ELSE LET index_date_str == SubSeq(index_name, Len(index_name) - 9, Len(index_name))
              age == days_between_today_and_date(DatePatternOf(rule), index_date_str)
          IN IF ~age.ok THEN Panicked(s, "date_parse")
             ELSE IF age.days > rule.age_threshold
               THEN NextIndex(Select(s, index, dry, del_ok))
               ELSE NextIndex(s)

\* The summary message: format!("Cleanup finished for {} service: ...").
SummaryMsg(name, total, remaining) ==
  "Cleanup finished for " \o name \o " service: " \o sizeof_fmt(total)
  \o " data has been deleted. (Remaining data size: " \o sizeof_fmt(remaining) \o ")"

\* After the rule loop: the totals and the returned ServiceResults.  The
\* unsigned subtraction cannot be taken when more was deleted than listed.
Return(s, name) ==
  IF s.total_data_deleted > s.full_index_size THEN Panicked(s, "overflow")
  ELSE LET total_remaining_size == s.full_index_size - s.total_data_deleted
       IN [s EXCEPT !.pc = "returned",
                    !.ret = [deletes |-> s.results,
                             total |-> s.total_data_deleted,
                             total_remaining |-> total_remaining_size,
                             total_human_readable_msg |->
                               SummaryMsg(name, s.total_data_deleted, total_remaining_size),
                             failures |-> s.num_failures,
                             reports |-> s.reports]]

\* The next step of a run, whichever it is (used for the dry-run twin).
Advance(s, service_obj, dry, del_ok) ==
  IF s.pc = "index" THEN ProcessIndex(s, service_obj.rules[s.rule_i], dry, del_ok)
  ELSE IF s.pc = "rule" /\ s.rule_i <= Len(service_obj.rules)
    THEN BeginRule(s, service_obj.rules[s.rule_i])
  ELSE IF s.pc = "rule" THEN Return(s, service_obj.service)
  ELSE s

(***************************************************************************)
(* send_notification: the payload.  A formatted line is kept as the tuple  *)
(* of the pieces that format! joins.                                       *)
(***************************************************************************)
NoNotification ==
  [color |-> "", short_descriptions |-> <<>>, all_deleted_indexes |-> <<>>,
   all_report_texts |-> <<>>]

\* `service_result.deletes.iter().filter(|r| !r.success).count()`
FailuresOf(service_result) ==
  Cardinality({k \in DOMAIN service_result.deletes : ~service_result.deletes[k].success})

StatusMark(ok) == IF ok THEN ":white_check_mark:" ELSE ":x:"

DetailLines(key, deletes) ==
  [k \in DOMAIN deletes |->
     IF deletes[k].success
     THEN <<StatusMark(TRUE), deletes[k].name, key, deletes[k].size>>
     ELSE <<StatusMark(FALSE), deletes[k].name, key>>]

RECURSIVE AllDetailsFrom(_, _)
AllDetailsFrom(results, k) ==
  IF k > Len(results) THEN <<>>
  ELSE DetailLines(results[k][1], results[k][2].deletes) \o AllDetailsFrom(results, k + 1)

RECURSIVE AllReportTextsFrom(_, _)
AllReportTextsFrom(results, k) ==
  IF k > Len(results) THEN <<>>
  ELSE (IF results[k][2].reports # <<>>
        THEN <<<<"Summary for ", results[k][1], " (pre-cleanup):", results[k][2].reports>>>>
        ELSE <<>>)
       \o AllReportTextsFrom(results, k + 1)

BuildNotification(results) ==
  LET has_failures == \E k \in DOMAIN results : FailuresOf(results[k][2]) > 0
  IN [color |-> IF has_failures THEN "#E01E5A" ELSE "#2EB67D",
      short_descriptions |->
        [k \in DOMAIN results |->
           <<results[k][2].total_human_readable_msg, " - ",
             StatusMark(FailuresOf(results[k][2]) = 0)>>],
      all_deleted_indexes |-> AllDetailsFrom(results, 1),
      all_report_texts |-> AllReportTextsFrom(results, 1)]

(***************************************************************************)
(* cleanup() and main(): what the webhook's answer makes cleanup() return  *)
(* and the exit code main() turns that into.  A panic exits with 101.      *)
(***************************************************************************)
SendOutcomes == {"success", "bad_status", "bad_status_no_body", "error"}

\* Mutant: a failed POST is logged and cleanup() returns Ok(true).
CleanupResultLenient(outcome) ==
  IF outcome = "bad_status" THEN "Ok(false)"
  ELSE IF outcome = "bad_status_no_body" THEN "panic"
  ELSE "Ok(true)"

\* `match res { Ok(res) => if !res.status().is_success() {..}, Err(err) => ..}`
CleanupResult(outcome) ==
  IF outcome = "success" THEN "Ok(true)"
  ELSE IF outcome = "bad_status" THEN "Ok(false)"
  ELSE IF outcome = "bad_status_no_body" THEN "panic"
  ELSE "Err"

\* `match cleanup().await { Ok(_) => exit(0), Err(err) => exit(1) }`
MainExit(result) ==
  IF result \in {"Ok(true)", "Ok(false)"} THEN 0
  ELSE IF result = "Err" THEN 1
  ELSE 101

(***************************************************************************)
(* The process.                                                            *)
(***************************************************************************)
Init ==
  /\ pc = "start"
  /\ dry_run = FALSE
  /\ service_rules = <<>>
  /\ svc_i = 0
  /\ sv = NoSv
  /\ all_results = <<>>
  /\ delete_log = <<>>
  /\ notification = NoNotification
  /\ send_result = "none"
  /\ posts = 0
  /\ fatal = ""
  /\ exit_code = -1
  /\ twin = NoSv

Exit(cause, code) == pc' = "exited" /\ fatal' = cause /\ exit_code' = code

\* CLEANUP_DRY_RUN does not parse as a bool: `.parse().unwrap()` panics.
ParseDryRunPanicsStep ==
  /\ pc = "start"
  /\ Exit("env", MainExit("panic"))
  /\ UNCHANGED <<dry_run, service_rules, svc_i, sv, all_results, delete_log,
                 notification, send_result, posts>>

\* The rules file cannot be opened or read, or is not the declared schema:
\* cleanup() returns Err.
LoadRulesFailsStep(cause) ==
  /\ pc = "start"
  /\ Exit(cause, MainExit("Err"))
  /\ UNCHANGED <<dry_run, service_rules, svc_i, sv, all_results, delete_log,
                 notification, send_result, posts>>

\* The environment is read and the rules file parsed.
LoadRulesStep(dry, rules) ==
  /\ pc = "start"
  /\ dry_run' = dry
  /\ service_rules' = rules
  /\ svc_i' = 1
  /\ pc' = "service"
  /\ UNCHANGED <<sv, all_results, delete_log, notification, send_result, posts,
                 fatal, exit_code>>

\* list_indexes fails: `.await.unwrap()` panics.
ListIndexesFailsStep ==
  /\ pc = "service"
  /\ svc_i <= Len(service_rules)
  /\ sv' = Panicked(NoSv, "list")
  /\ Exit("list", MainExit("panic"))
  /\ UNCHANGED <<dry_run, service_rules, svc_i, all_results, delete_log,
                 notification, send_result, posts>>

\* A step of cleanup_service leaves the process running unless it panicked.
ServiceStep(s) ==
  /\ sv' = s
  /\ IF s.pc = "panicked"
     THEN Exit(s.panic, MainExit("panic"))
     ELSE pc' = "in_service" /\ UNCHANGED <<fatal, exit_code>>
  /\ UNCHANGED <<dry_run, service_rules, svc_i, all_results, delete_log,
                 notification, send_result, posts>>

\* cleanup_service is entered: the listing, the full size, the reports.
ListIndexesStep(listing) ==
  /\ pc = "service"
  /\ svc_i <= Len(service_rules)
  /\ ServiceStep(StartService(listing, service_rules[svc_i].summary_reports))

BeginRuleStep ==
  /\ pc = "in_service"
  /\ sv.pc = "rule"
  /\ sv.rule_i <= Len(service_rules[svc_i].rules)
  /\ ServiceStep(BeginRule(sv, service_rules[svc_i].rules[sv.rule_i]))

ProcessIndexStep(del_ok) ==
  /\ pc = "in_service"
  /\ sv.pc = "index"
  /\ ServiceStep(ProcessIndex(sv, service_rules[svc_i].rules[sv.rule_i], dry_run, del_ok))

\* cleanup_service returns and its result is pushed to all_results.
ReturnServiceStep ==
  /\ pc = "in_service"
  /\ sv.pc = "rule"
  /\ sv.rule_i > Len(service_rules[svc_i].rules)
  /\ LET s == Return(sv, service_rules[svc_i].service)
     IN /\ sv' = s
        /\ IF s.pc = "panicked"
           THEN /\ Exit(s.panic, MainExit("panic"))
                /\ UNCHANGED <<svc_i, all_results, delete_log>>
           ELSE /\ pc' = "service"
                /\ svc_i' = svc_i + 1
                /\ all_results' = Append(all_results, <<service_rules[svc_i].service, s.ret>>)
                /\ delete_log' = delete_log \o s.calls
                /\ UNCHANGED <<fatal, exit_code>>
  /\ UNCHANGED <<dry_run, service_rules, notification, send_result, posts>>

\* Dry run, or NOTIFICATION_WEBHOOK_URL empty: cleanup() returns Ok(true).
SkipNotificationStep(url_empty) ==
  /\ pc = "service"
  /\ svc_i > Len(service_rules)
  /\ dry_run \/ url_empty
  /\ Exit("", MainExit("Ok(true)"))
  /\ UNCHANGED <<dry_run, service_rules, svc_i, sv, all_results, delete_log,
                 notification, send_result, posts>>

\* The webhook URL does not parse: `Url::parse(..).unwrap()` panics after the
\* payload was built and before anything is posted.
NotificationUrlInvalidStep ==
  /\ pc = "service"
  /\ svc_i > Len(service_rules)
  /\ ~dry_run
  /\ notification' = BuildNotification(all_results)
  /\ Exit("url", MainExit("panic"))
  /\ UNCHANGED <<dry_run, service_rules, svc_i, sv, all_results, delete_log,
                 send_result, posts>>

\* The payload is built and posted once; the answer decides the exit code.
SendNotificationStep(outcome) ==
  /\ pc = "service"
  /\ svc_i > Len(service_rules)
  /\ ~dry_run
  /\ notification' = BuildNotification(all_results)
  /\ posts' = posts + 1
  /\ send_result' = outcome
  /\ Exit(IF CleanupResult(outcome) \in {"Ok(true)", "Ok(false)"} THEN "" ELSE "notify",
          MainExit(CleanupResult(outcome)))
  /\ UNCHANGED <<dry_run, service_rules, svc_i, sv, all_results, delete_log>>

ParseDryRunPanics == ParseDryRunPanicsStep /\ UNCHANGED twin
LoadRulesFails == \E cause \in {"open", "read", "yaml"} : LoadRulesFailsStep(cause) /\ UNCHANGED twin
LoadRules == \E dry \in BOOLEAN, rules \in RuleFiles : LoadRulesStep(dry, rules) /\ UNCHANGED twin
ListIndexesFails == ListIndexesFailsStep /\ UNCHANGED twin
ListIndexes == \E listing \in Listings : ListIndexesStep(listing) /\ UNCHANGED twin
BeginRuleAct == BeginRuleStep /\ UNCHANGED twin
ProcessIndexAct == \E del_ok \in BOOLEAN : ProcessIndexStep(del_ok) /\ UNCHANGED twin
ReturnService == ReturnServiceStep /\ UNCHANGED twin
SkipNotification == \E url_empty \in BOOLEAN : SkipNotificationStep(url_empty) /\ UNCHANGED twin
NotificationUrlInvalid == NotificationUrlInvalidStep /\ UNCHANGED twin
SendNotification == \E outcome \in SendOutcomes : SendNotificationStep(outcome) /\ UNCHANGED twin

Next ==
  \/ ParseDryRunPanics
  \/ LoadRulesFails
  \/ LoadRules
  \/ ListIndexesFails
  \/ ListIndexes
  \/ BeginRuleAct
  \/ ProcessIndexAct
  \/ ReturnService
  \/ SkipNotification
  \/ NotificationUrlInvalid
  \/ SendNotification

Spec == Init /\ [][Next]_vars

(***************************************************************************)
(* The same process in real mode, with a dry run of every cleanup_service  *)
(* call carried along on the same listing and rules, step for step.        *)
(***************************************************************************)
TwinStep == twin' = Advance(twin, service_rules[svc_i], TRUE, TRUE)

PairLoadRules == \E rules \in RuleFiles : LoadRulesStep(FALSE, rules) /\ UNCHANGED twin
PairListIndexes ==
  \E listing \in Listings :
    /\ ListIndexesStep(listing)
    /\ twin' = StartService(listing, service_rules[svc_i].summary_reports)
PairBeginRule == BeginRuleStep /\ TwinStep
PairProcessIndex == \E del_ok \in BOOLEAN : ProcessIndexStep(del_ok) /\ TwinStep
PairReturnService == ReturnServiceStep /\ TwinStep

NextDryReal ==
  \/ ParseDryRunPanics
  \/ LoadRulesFails
  \/ PairLoadRules
  \/ ListIndexesFails
  \/ PairListIndexes
  \/ PairBeginRule
  \/ PairProcessIndex
  \/ PairReturnService
  \/ SkipNotification
  \/ NotificationUrlInvalid
  \/ SendNotification

SpecDryReal == Init /\ [][NextDryReal]_vars

(***************************************************************************)
(* Definitions used to state the properties.                               *)
(***************************************************************************)
\* The service whose run sv holds: the loop has moved on once it returned.
SvService == IF sv.pc = "returned" THEN service_rules[svc_i - 1] ELSE service_rules[svc_i]

SvActive == sv.pc \in {"rule", "index", "returned"}

StartsWithDot(index_name) == Len(index_name) >= 1 /\ Head(index_name) = "."

ResultNames(results) == [k \in DOMAIN results |-> results[k].name]

RECURSIVE SumOver(_, _)
SumOver(indices, positions) ==
  IF positions = {} THEN 0
  ELSE LET k == CHOOSE x \in positions : TRUE
       IN indices[k].size + SumOver(indices, positions \ {k})

\* Bytes of the listing's indices whose name matches the pattern.
MatchingBytes(indices, pattern) ==
  SumOver(indices, {k \in DOMAIN indices : is_match(pattern, indices[k].index_name)})

\* Age of an index name under a rule, from its last 10 characters.
AgeUnder(rule, index_name) ==
  days_between_today_and_date(DatePatternOf(rule),
                              SubSeq(index_name, Len(index_name) - 9, Len(index_name)))

\* A step of the current run that selects one more index.
SelectsIndex ==
  /\ sv.pc = "index"
  /\ sv'.indices = sv.indices
  /\ Len(sv'.results) = Len(sv.results) + 1

Selected == sv'.results[Len(sv'.results)].name

(***************************************************************************)
(* C1: whenever cleanup_service returns, total_remaining + total equals    *)
(* the sum of the sizes of all indices of the listing, and the unsigned    *)
(* subtraction full_index_size - total_data_deleted never underflows.      *)
(***************************************************************************)
TotalsAddUp ==
  /\ fatal # "overflow"
  /\ sv.pc = "returned" =>
       /\ sv.ret.total_remaining >= 0
       /\ sv.ret.total_remaining + sv.ret.total = SumOver(sv.indices, DOMAIN sv.indices)

\* A real run with a failed delete that removed part of the listing.
TotalsAddUpWitness ==
  /\ sv.pc = "returned"
  /\ ~dry_run
  /\ sv.ret.failures > 0
  /\ sv.ret.total > 0
  /\ sv.ret.total_remaining > 0

(***************************************************************************)
(* C2, as stated: an index is selected at most once, and an index whose    *)
(* name matches the pattern of an earlier rule is never selected while a   *)
(* later rule is evaluated.                                                *)
(***************************************************************************)
EarlierPatternNeverSelectedLater ==
  [][SelectsIndex =>
       /\ Selected \notin Range(ResultNames(sv.results))
       /\ \A i \in 1..(sv.rule_i - 1) :
            ~is_match(SvService.rules[i].index_pattern, Selected)]_vars

(***************************************************************************)
(* C2, amended: an index is selected at most once, and when it is selected *)
(* while rule j is evaluated, every earlier rule whose pattern matches its *)
(* name found its age not above that rule's threshold.                     *)
(***************************************************************************)
SelectedOnceByFirstRuleExceeded ==
  /\ [](\A a, b \in DOMAIN sv.results :
          a # b => sv.results[a].name # sv.results[b].name)
  /\ [][SelectsIndex =>
          /\ Selected \notin Range(ResultNames(sv.results))
          /\ AgeUnder(SvService.rules[sv.rule_i], Selected).days
               > SvService.rules[sv.rule_i].age_threshold
          /\ \A i \in 1..(sv.rule_i - 1) :
               is_match(SvService.rules[i].index_pattern, Selected) =>
                 /\ AgeUnder(SvService.rules[i], Selected).ok
                 /\ AgeUnder(SvService.rules[i], Selected).days
                      <= SvService.rules[i].age_threshold]_vars

\* Both indices match both patterns: the old one is claimed by the first rule
\* and skipped by the second, the new one is selected by the second rule only.
SelectedOnceWitness ==
  /\ sv.pc = "returned"
  /\ SvService.rules = <<RuleAll100, RuleLogs10>>
  /\ ResultNames(sv.results) = <<NameOld, NameNew>>

(***************************************************************************)
(* C3: an index whose name begins with '.' is never among the deletions    *)
(* and delete_index is never called for it, in dry-run and in real mode.   *)
(***************************************************************************)
ProtectedNeverDeleted ==
  /\ \A k \in DOMAIN sv.results : ~StartsWithDot(sv.results[k].name)
  /\ \A k \in DOMAIN sv.calls : ~StartsWithDot(sv.calls[k])
  /\ \A k \in DOMAIN delete_log : ~StartsWithDot(delete_log[k])
  /\ \A k \in DOMAIN all_results :
       \A d \in DOMAIN all_results[k][2].deletes :
         ~StartsWithDot(all_results[k][2].deletes[d].name)

\* A run that returned after a rule matched a protected index old enough to
\* exceed the rule's threshold, next to an index that was deleted.
ProtectedNeverDeletedWitness ==
  /\ sv.pc = "returned"
  /\ \E k \in DOMAIN sv.indices, r \in DOMAIN SvService.rules :
       /\ StartsWithDot(sv.indices[k].index_name)
       /\ is_match(SvService.rules[r].index_pattern, sv.indices[k].index_name)
       /\ AgeUnder(SvService.rules[r], sv.indices[k].index_name).ok
       /\ AgeUnder(SvService.rules[r], sv.indices[k].index_name).days
            > SvService.rules[r].age_threshold
  /\ sv.results # <<>>

(***************************************************************************)
(* C4 (SpecDryReal): a dry run never calls delete_index, and on the same   *)
(* listing and rules it returns whenever the real run does, with the same  *)
(* deletions (names and sizes, in order), total and total_remaining, and   *)
(* success = true for every selected index.                                *)
(***************************************************************************)
DryRunSameAccounting ==
  /\ twin.calls = <<>>
  /\ sv.pc = "returned" =>
       /\ twin.pc = "returned"
       /\ Len(twin.ret.deletes) = Len(sv.ret.deletes)
       /\ \A k \in DOMAIN sv.ret.deletes :
            /\ twin.ret.deletes[k].name = sv.ret.deletes[k].name
            /\ twin.ret.deletes[k].size = sv.ret.deletes[k].size
            /\ twin.ret.deletes[k].success
       /\ twin.ret.total = sv.ret.total
       /\ twin.ret.total_remaining = sv.ret.total_remaining

\* The real run had a failing delete call and selected two indices.
DryRunSameAccountingWitness ==
  /\ sv.pc = "returned"
  /\ twin.pc = "returned"
  /\ sv.ret.failures > 0
  /\ Len(twin.ret.deletes) = 2
  /\ Len(sv.calls) = 2

(***************************************************************************)
(* C5: at the end of every run failure_count equals the number of          *)
(* outcomes in deletions with succeeded = false.                           *)
(***************************************************************************)
FailuresMatchOutcomes ==
  sv.pc = "returned" => sv.ret.failures = FailuresOf(sv.ret)

(***************************************************************************)
(* C6: a date token that does not conform to the rule's date pattern, or   *)
(* a name too short to yield one, never ends the process.                  *)
(***************************************************************************)
DateParseFailureNonFatal == fatal \notin {"slice", "date_parse"}

(***************************************************************************)
(* C7: when the process ends in a configuration error (rules file missing, *)
(* unreadable or malformed, or an invalid glob pattern), no delete call    *)
(* has been issued for any index of any service.                           *)
(***************************************************************************)
ConfigErrorBeforeAnyDelete ==
  fatal \in {"open", "read", "yaml", "glob"} => delete_log = <<>> /\ sv.calls = <<>>

(***************************************************************************)
(* C8: the notification's color is the alert color exactly when some       *)
(* service has failure_count > 0, and a service's status line carries the  *)
(* cross-mark exactly when its failure_count is not 0.                     *)
(***************************************************************************)
NotificationReflectsFailures ==
  notification # NoNotification =>
    /\ notification.color = "#E01E5A"
         <=> \E k \in DOMAIN all_results : all_results[k][2].failures > 0
    /\ \A k \in DOMAIN all_results :
         notification.short_descriptions[k][3] = ":x:"
           <=> all_results[k][2].failures # 0

(***************************************************************************)
(* C9: the reports of a run hold one row per configured summary report,    *)
(* in declaration order; a row's size is the formatted sum of the sizes    *)
(* of the listed indices matching the report's pattern ("0B" when none     *)
(* does); the rows are in place before the first delete call and are the   *)
(* ones returned.                                                          *)
(***************************************************************************)
ReportRowsPerSpec ==
  SvActive =>
    /\ Len(sv.reports) = Len(SvService.summary_reports)
    /\ \A k \in DOMAIN SvService.summary_reports :
         /\ sv.reports[k][1] = SvService.summary_reports[k].name
         /\ sv.reports[k][2]
              = sizeof_fmt(MatchingBytes(sv.indices, SvService.summary_reports[k].pattern))
         /\ MatchingBytes(sv.indices, SvService.summary_reports[k].pattern) = 0
              => sv.reports[k][2] = "0B"
    /\ sv.pc = "returned" => sv.ret.reports = sv.reports

\* A run that deleted an index and reports a pattern without any match
\* before a pattern matching 1024 + 2048 bytes.
ReportRowsPerSpecWitness ==
  /\ sv.pc = "returned"
  /\ sv.calls # <<>>
  /\ sv.ret.reports = <<<<"none", "0B">>, <<"logs", "3KiB">>>>

====
